---------------------------- MODULE Spec2Model ----------------------------
(***************************************************************************)
(* Blade Runner RPG system for Foundry VTT.                                *)
(*                                                                         *)
(* Four parts of the system are modelled:                                   *)
(*   - the versioned notification display (displayMessages and helpers),   *)
(*     with the persisted DISPLAYED_MESSAGES setting as shared state;      *)
(*   - the construction of a roll from an item or from the character       *)
(*     sheet (BladeRunnerItem.roll, _onActionRoll) and the static tables   *)
(*     of the configuration (FLBR);                                        *)
(*   - the listeners of the character sheet (activateListeners,            *)
(*     _onResolveDecrease);                                                *)
(*   - the version bump of the release tooling (bumpVersion).              *)
(***************************************************************************)
EXTENDS Integers, Sequences, FiniteSets, TLC

(***************************************************************************)
(* Bounds of the model.                                                    *)
(***************************************************************************)
\* Number of displayMessages passes in one behaviour.
MaxPasses == 2
\* Number of lookups in the score tables in one behaviour.
MaxLookups == 2
\* Number of contextmenu events on the resolve boxes in one behaviour.
MaxEvents == 2
\* Number of executions of bumpVersion in one behaviour.
MaxBumps == 2

(***************************************************************************)
(* Versions: "major.minor.patch" as a triple of numbers.  An absent bound  *)
(* (undefined in the message record) is the empty sequence.                *)
(***************************************************************************)
Absent == << >>

Versions == { <<1, 2, 0>>, <<2, 0, 0>>, <<2, 1, 0>> }

OptVersions == Versions \cup {Absent}

\* msg[...] ?? '0.0.0'
DefaultMin == <<0, 0, 0>>
\* msg[...] ?? '100.0.0'
DefaultMax == <<100, 0, 0>>

\* a ?? b
Coalesce(a, b) == IF a = Absent THEN b ELSE a

\* foundry.utils.isNewerVersion(v1, v0): part by part, numerically; the first
\* differing part decides, equal versions are not newer.
RECURSIVE NewerFrom(_, _, _)
NewerFrom(v1, v0, i) ==
  IF i > Len(v1) THEN FALSE
  ELSE IF i > Len(v0) THEN TRUE
  ELSE IF v1[i] # v0[i] THEN v1[i] > v0[i]
  ELSE NewerFrom(v1, v0, i + 1)

isNewerVersion(v1, v0) == NewerFrom(v1, v0, 1)

\* semverComp(min, curr, max, { gEqMin: true }): min <= curr < max.
semverComp(min, curr, max) ==
  /\ ~ isNewerVersion(min, curr)
  /\ isNewerVersion(max, curr)

(***************************************************************************)
(* The message catalog (assets/messages/messages.jsonc, once parsed).      *)
(***************************************************************************)
Titles == {"a", "b"}
Displays == {"once", "every"}
Types == {"prompt", "chat"}

Msg(t, d, ty, minC, maxC, minS, maxS) ==
  [title |-> t, display |-> d, type |-> ty,
   minCore |-> minC, maxCore |-> maxC, minSys |-> minS, maxSys |-> maxS]

\* Messages without version bounds.
PlainMessages ==
  { Msg(t, d, ty, Absent, Absent, Absent, Absent) :
      t \in Titles, d \in Displays, ty \in Types }

\* Messages with every combination of version bounds.
BoundedMessages ==
  { Msg("a", d, ty, b[1], b[2], b[3], b[4]) :
      d \in Displays, ty \in Types,
      b \in OptVersions \X OptVersions \X OptVersions \X OptVersions }

\* Catalogs of no, one or two messages without version bounds.  Titles are
\* interchangeable: only catalogs whose first title is "a" are taken.
PlainCatalogs ==
  { << >> }
    \cup { <<m>> : m \in { x \in PlainMessages : x.title = "a" } }
    \cup { <<m, n>> : m \in { x \in PlainMessages : x.title = "a" },
                     n \in PlainMessages }

\* Catalogs of one message with version bounds.
BoundedCatalogs == { <<m>> : m \in BoundedMessages }

VARIABLES
  catalog,         \* the messages of messages.jsonc
  game_version,    \* game.version
  system_version,  \* game.system.version
  stored,          \* game.settings value of DISPLAYED_MESSAGES (list of titles)
  pending,         \* game.settings.set calls not yet completed (values, FIFO)
  prompts,         \* open Dialog.prompt windows, per title
  chats,           \* chat messages created, per title
  shown,           \* per catalog entry: number of times it was displayed
  recorded,        \* titles setDisplayed was called with
  fetching,        \* displayMessages calls awaiting the catalog
  passes,          \* displayMessages calls started
  log              \* last finished pass: its status, and what handleDisplay
                   \* did for each entry of the catalog

displayVars ==
  << catalog, game_version, system_version, stored, pending, prompts, chats,
     shown, recorded, fetching, passes, log >>

VARIABLES
  item,            \* an item
  actor,           \* a character, whose sheet is open
  owned,           \* whether the item is owned by the actor (item.actor)
  call,            \* the last handler invoked
  roller,          \* the BRRollHandler that call constructed (none: << >>)
  rendered,        \* whether that call rendered the roller
  rollStat         \* the arguments of the actor.rollStat call it made (none: << >>)

rollVars == << item, actor, owned, call, roller, rendered, rollStat >>

VARIABLES
  lookups       \* the lookups made in FLBR.scoreMap and FLBR.dieMap, in order

configVars == << lookups >>

VARIABLES
  isGM,         \* game.user.isGM
  limited,      \* this.actor.limited
  isEditable,   \* this.isEditable
  subtype,      \* this.actor.system.subtype
  resolve,      \* this.actor.resolve.value
  template,     \* the template the sheet was rendered with, "none" before
  bound,        \* the handlers bound by activateListeners
  events,       \* contextmenu events handled by _onResolveDecrease
  prevented,    \* events on which event.preventDefault() was called
  rollResolve   \* calls of this.actor.rollResolve()

sheetVars ==
  << isGM, limited, isEditable, subtype, resolve, template, bound, events,
     prevented, rollResolve >>

VARIABLES
  packageJson,  \* packageJson.version, as in package.json
  manifestFile, \* the version in static/system.json, << >> when there is no file
  argv,         \* argv.release || argv.r of the last execution
  cbs,          \* the calls of the callback in the last execution, in order
  written,      \* the files written by the last execution
  bumps         \* executions of bumpVersion

bumpVars == << packageJson, manifestFile, argv, cbs, written, bumps >>

otherVars == << configVars, sheetVars, bumpVars >>

vars == << displayVars, rollVars, otherVars >>

(***************************************************************************)
(* hasDisplayed(identifier): settings?.includes(identifier)                *)
(***************************************************************************)
\* A hasDisplayed that never finds the identifier.
hasDisplayedNever(settings, identifier) == FALSE

hasDisplayed(settings, identifier) ==
  \E i \in 1..Len(settings) : settings[i] = identifier

\* !msg.display === 'once': the negation is a boolean, and a boolean is never
\* strictly equal to the string 'once'.
NotDisplayIsOnce(msg) == FALSE

\* A host-version test that lets the version equal to the upper bound pass.
correctCoreVersionUpTo(msg, gv) ==
  /\ ~ isNewerVersion(gv, Coalesce(msg.maxCore, DefaultMax))
  /\ isNewerVersion(gv, Coalesce(msg.minCore, DefaultMin))

correctCoreVersion(msg, gv) ==
  /\ isNewerVersion(Coalesce(msg.maxCore, DefaultMax), gv)
  /\ isNewerVersion(gv, Coalesce(msg.minCore, DefaultMin))

correctSysVersion(msg, sv) ==
  semverComp(Coalesce(msg.minSys, DefaultMin), sv, Coalesce(msg.maxSys, DefaultMax))

isCurrent(msg, settings, gv, sv) ==
  LET isDisplayable == NotDisplayIsOnce(msg) \/ ~ hasDisplayed(settings, msg.title)
  IN  isDisplayable /\ correctCoreVersion(msg, gv) /\ correctSysVersion(msg, sv)

(***************************************************************************)
(* The state the handlers act on, threaded through one synchronous run.    *)
(* live: game.settings.get handed out the stored array itself (a push is   *)
(* seen by the next get at once) or a copy of it (the stored value changes *)
(* only when the set completes).  Both occur in the host.                  *)
(***************************************************************************)
setDisplayed(st, identifier, live) ==
  LET settings == Append(st.stored, identifier)
  IN  [st EXCEPT !.stored = IF live THEN settings ELSE @,
                 !.pending = Append(@, settings),
                 !.recorded = @ \cup {identifier}]

displayPrompt(st, title) ==
  [st EXCEPT !.prompts[title] = @ + 1]

sendToChat(st, title, live) ==
  LET st1 == setDisplayed(st, title, live)
  IN  [st1 EXCEPT !.chats[title] = @ + 1]

\* handleDisplay(msg) for the i-th entry of the catalog.
handleDisplay(st, i, gv, sv, live) ==
  LET msg == catalog[i]
      had == hasDisplayed(st.stored, msg.title)
      cur == isCurrent(msg, st.stored, gv, sv)
      st1 == IF ~ cur THEN st
             ELSE IF msg.type = "prompt" THEN displayPrompt(st, msg.title)
             ELSE IF msg.type = "chat" THEN sendToChat(st, msg.title, live)
             ELSE st
      did == IF cur /\ msg.type \in Types THEN msg.type ELSE "none"
  IN  [st1 EXCEPT !.shown[i] = IF did = "none" THEN @ ELSE @ + 1,
                  !.log = Append(@, [had |-> had, did |-> did,
                                     rec |-> st1.pending # st.pending])]

\* messages.forEach(message => handleDisplay(message))
RECURSIVE forEachMessage(_, _, _, _, _)
forEachMessage(st, i, gv, sv, live) ==
  IF i > Len(catalog) THEN st
  ELSE forEachMessage(handleDisplay(st, i, gv, sv, live), i + 1, gv, sv, live)

State ==
  [stored |-> stored, pending |-> pending, prompts |-> prompts, chats |-> chats,
   shown |-> shown, recorded |-> recorded, log |-> << >>]

Install(st) ==
  /\ stored' = st.stored
  /\ pending' = st.pending
  /\ prompts' = st.prompts
  /\ chats' = st.chats
  /\ shown' = st.shown
  /\ recorded' = st.recorded

(***************************************************************************)
(* displayMessages                                                         *)
(***************************************************************************)
\* The call: the fetch of the catalog is started.
DisplayMessagesCall ==
  /\ passes < MaxPasses
  /\ passes' = passes + 1
  /\ fetching' = fetching + 1
  /\ UNCHANGED << catalog, game_version, system_version, stored, pending,
                  prompts, chats, shown, recorded, log >>

\* A displayMessages that handles the messages it has read before it fails.
DisplayMessagesRejectLate ==
  /\ fetching > 0
  /\ fetching' = fetching - 1
  /\ log' = [status |-> "rejected", entries |-> << >>]
  /\ \E live \in BOOLEAN :
       Install(forEachMessage(State, 1, game_version, system_version, live))
  /\ UNCHANGED << catalog, game_version, system_version, passes >>

\* The fetch fails, or JSON.parse(stripJSON(jsonc)) throws: the promise is
\* rejected before forEach.
DisplayMessagesReject ==
  /\ fetching > 0
  /\ fetching' = fetching - 1
  /\ log' = [status |-> "rejected", entries |-> << >>]
  /\ UNCHANGED << catalog, game_version, system_version, stored, pending,
                  prompts, chats, shown, recorded, passes >>

\* The catalog arrives and parses: every message is handled, synchronously.
DisplayMessagesRun ==
  /\ fetching > 0
  /\ fetching' = fetching - 1
  /\ \E live \in BOOLEAN :
       LET st == forEachMessage(State, 1, game_version, system_version, live)
       IN  Install(st) /\ log' = [status |-> "done", entries |-> st.log]
  /\ UNCHANGED << catalog, game_version, system_version, passes >>

\* The user presses 'Understood!' in an open prompt: callback setDisplayed(title).
PromptCallback ==
  \E t \in Titles, live \in BOOLEAN :
    /\ prompts[t] > 0
    /\ LET st == setDisplayed([State EXCEPT !.prompts[t] = @ - 1], t, live)
       IN  Install(st)
    /\ UNCHANGED << catalog, game_version, system_version, fetching, passes,
                    log >>

\* The user closes an open prompt without pressing the button: no callback.
PromptClose ==
  \E t \in Titles :
    /\ prompts[t] > 0
    /\ prompts' = [prompts EXCEPT ![t] = @ - 1]
    /\ UNCHANGED << catalog, game_version, system_version, stored, pending,
                    chats, shown, recorded, fetching, passes, log >>

\* await game.settings.set(...) completes: the value becomes the stored one.
SettingsSetDone ==
  /\ pending # << >>
  /\ stored' = Head(pending)
  /\ pending' = Tail(pending)
  /\ UNCHANGED << catalog, game_version, system_version, prompts, chats,
                  shown, recorded, fetching, passes, log >>

InitDisplay ==
  /\ \/ /\ catalog \in BoundedCatalogs
        /\ game_version \in Versions
        /\ system_version \in Versions
     \/ /\ catalog \in PlainCatalogs
        /\ game_version = <<2, 0, 0>>
        /\ system_version = <<2, 0, 0>>
  /\ stored = << >>
  /\ pending = << >>
  /\ prompts = [t \in Titles |-> 0]
  /\ chats = [t \in Titles |-> 0]
  /\ shown = [i \in 1..Len(catalog) |-> 0]
  /\ recorded = {}
  /\ fetching = 0
  /\ passes = 0
  /\ log = [status |-> "none", entries |-> << >>]

(***************************************************************************)
(* Constants of the system (constants.js) and its configuration (FLBR).    *)
(***************************************************************************)
\* A JavaScript value that may be undefined: << >> is undefined, <<v>> is v.
Undefined == << >>
Some(v) == <<v>>

\* if (x): undefined and 0 are falsy.
Truthy(x) == x # Undefined /\ x[1] # 0

DIE_SCORES == {12, 10, 8, 6}

ATTRIBUTES == {"str", "agi", "int", "emp", "mvr"}

SKILLS ==
  {"force", "closeCombat", "stamina", "firearms", "mobility", "stealth",
   "medicalAid", "observation", "tech", "driving", "connections", "insight",
   "manipulation"}

CAPACITIES == {"health", "resolve"}

NATURES == {"human", "replicant"}

vehicleAttribute == "mvr"

\* FLBR.attributes
attributes == ATTRIBUTES \ {vehicleAttribute}

skillMap ==
  [k \in SKILLS |->
     CASE k \in {"closeCombat", "force", "stamina"} -> "str"
       [] k \in {"firearms", "mobility", "stealth"} -> "agi"
       [] k \in {"medicalAid", "observation", "tech"} -> "int"
       [] k \in {"connections", "insight", "manipulation"} -> "emp"
       [] k = "driving" -> "mvr"]

\* FLBR.capacitiesMap[capacity].attributes
capacitiesMap ==
  [c \in CAPACITIES |->
     IF c = "health" THEN {"str", "agi"} ELSE {"int", "emp"}]

\* The keys of FLBR.natures.
natures == NATURES

\* A push table with the same count for both natures.
maxPushMapFlat == [n \in NATURES |-> 1]

maxPushMap == [n \in NATURES |-> IF n = "human" THEN 1 ELSE 2]

pushTraumaMap ==
  [n \in NATURES |->
     IF n = "human"
     THEN [a \in {"str", "agi", "int", "emp"} |->
             IF a \in {"str", "agi"} THEN "health" ELSE "resolve"]
     ELSE [a \in {"str", "agi", "int", "emp"} |-> "resolve"]]

\* FLBR.pushTraumaMap[nature][attribute]; a key that is not in the table
\* yields undefined.
pushTrauma(nature, attribute) ==
  IF attribute \in DOMAIN pushTraumaMap[nature]
  THEN Some(pushTraumaMap[nature][attribute])
  ELSE Undefined

(***************************************************************************)
(* Actors and items.                                                       *)
(***************************************************************************)
\* A score of the sheet: a die size, or 0 (shown as a dash).
Scores == DIE_SCORES \cup {0}

\* An actor has a nature and a score for each attribute and skill of a
\* character (FLBR.attributes, FLBR.skills); every attribute has score a and
\* every skill score s.
Actor(n, a, s) ==
  [nature |-> n,
   attributes |-> [k \in attributes |-> a],
   skills |-> [k \in SKILLS |-> s]]

Actors == { Actor(n, a, s) : n \in NATURES, a \in Scores, s \in Scores }

\* actor.getAttribute(key): the score, undefined when the actor has none.
getAttribute(owner, key) ==
  IF key \in DOMAIN owner.attributes THEN Some(owner.attributes[key]) ELSE Undefined

\* actor.getSkill(key): the score, undefined when the actor has none.
getSkill(owner, key) ==
  IF key \in DOMAIN owner.skills THEN Some(owner.skills[key]) ELSE Undefined

\* props.rollable as stored in the item data.
RollableProps == {"true", "false", "null", "undefined"}

\* A skill key of an item: a skill, or "undefined".
NoSkill == "undefined"

Items ==
  [rollable : RollableProps, attribute : ATTRIBUTES, skill : SKILLS \cup {NoSkill}]

\* A rollable that is true unless the property is false.
rollableUnlessFalse(this) == this.rollable # "false"

\* get rollable(): !!(this.props.rollable ?? false)
rollable(this) == this.rollable = "true"

\* Dice pushed without the test of the score.
rollDiceUnchecked(attributeValue, skillValue) ==
  (IF attributeValue # Undefined THEN <<attributeValue[1]>> ELSE <<0>>)
    \o (IF skillValue # Undefined THEN <<skillValue[1]>> ELSE <<0>>)

\* The dice of a roll: the attribute score, then the skill score, each only
\* when truthy.
rollDice(attributeValue, skillValue) ==
  (IF Truthy(attributeValue) THEN <<attributeValue[1]>> ELSE << >>)
    \o (IF Truthy(skillValue) THEN <<skillValue[1]>> ELSE << >>)

\* The targets of the modifiers: the attribute key, and the skill key if any.
rollTargets(attributeKey, skillKey) ==
  <<attributeKey>> \o (IF skillKey # NoSkill THEN <<skillKey>> ELSE << >>)

\* new BRRollHandler({...}) in BladeRunnerItem.roll
itemRoller(this, owner) ==
  LET attributeKey == this.attribute
      skillKey == this.skill
      attributeValue == getAttribute(owner, attributeKey)
      skillValue == getSkill(owner, skillKey)
  IN  [attributeKey |-> attributeKey,
       skillKey |-> skillKey,
       dice |-> rollDice(attributeValue, skillValue),
       targets |-> rollTargets(attributeKey, skillKey),
       nature |-> owner.nature,
       maxPush |-> maxPushMap[owner.nature]]

\* BladeRunnerItem.roll()
ItemRoll ==
  /\ call' = "item.roll"
  /\ IF ~ rollable(item) \/ ~ owned
     THEN roller' = << >> /\ rendered' = FALSE
     ELSE roller' = << itemRoller(item, actor) >> /\ rendered' = TRUE
  /\ rollStat' = << >>
  /\ UNCHANGED << item, actor, owned >>

\* BladeRunnerCharacterSheet._onActionRoll: a click on an action of the sheet
\* whose data-skill is skillKey.
OnActionRoll ==
  \E skillKey \in SKILLS :
    /\ call' = "_onActionRoll"
    /\ rollStat' = << [attributeKey |-> skillMap[skillKey], skillKey |-> skillKey,
                       nature |-> actor.nature] >>
    /\ roller' = << >>
    /\ rendered' = FALSE
    /\ UNCHANGED << item, actor, owned >>

InitRoll ==
  /\ item \in Items
  /\ actor \in Actors
  /\ owned \in BOOLEAN
  /\ call = "none"
  /\ roller = << >>
  /\ rendered = FALSE
  /\ rollStat = << >>

\* The display at rest, with an empty catalog.
InitDisplayIdle ==
  /\ catalog = << >>
  /\ game_version = <<2, 0, 0>>
  /\ system_version = <<2, 0, 0>>
  /\ stored = << >>
  /\ pending = << >>
  /\ prompts = [t \in Titles |-> 0]
  /\ chats = [t \in Titles |-> 0]
  /\ shown = << >>
  /\ recorded = {}
  /\ fetching = 0
  /\ passes = 0
  /\ log = [status |-> "none", entries |-> << >>]

(***************************************************************************)
(* FLBR.scoreMap and FLBR.dieMap: a Map is a sequence of <<key, value>>    *)
(* entries in insertion order; set replaces the value of a key in place.   *)
(***************************************************************************)
\* The label of the score 0 (a dash).
Dash == "-"

\* Die scores in which the labels B and C have the same size.
DieScoreEntriesShared == << <<"A", 12>>, <<"B", 10>>, <<"C", 10>>, <<"D", 6>> >>

\* The entries of BR.DIE_SCORES in the order for...in visits them.
DieScoreEntries == << <<"A", 12>>, <<"B", 10>>, <<"C", 8>>, <<"D", 6>> >>

\* Map.prototype.has
MapHas(map, key) == \E i \in DOMAIN map : map[i][1] = key

\* Map.prototype.get: the value, undefined for a key that is not in the map.
MapGet(map, key) ==
  IF MapHas(map, key)
  THEN Some(map[CHOOSE i \in DOMAIN map : map[i][1] = key][2])
  ELSE Undefined

\* Map.prototype.set
MapSet(map, key, value) ==
  IF MapHas(map, key)
  THEN [i \in DOMAIN map |-> IF map[i][1] = key THEN <<key, value>> ELSE map[i]]
  ELSE Append(map, <<key, value>>)

\* The map after set(entry[1], entry[2]) for the entries from the i-th on.
RECURSIVE MapSetAll(_, _, _)
MapSetAll(map, entries, i) ==
  IF i > Len(entries) THEN map
  ELSE MapSetAll(MapSet(map, entries[i][1], entries[i][2]), entries, i + 1)

scoreMap == MapSetAll(MapSet(<< >>, Dash, 0), DieScoreEntries, 1)

\* new Map(Array.from(FLBR.scoreMap, ([n, v]) => [v, n]))
dieMap ==
  MapSetAll(<< >>, [i \in DOMAIN scoreMap |-> <<scoreMap[i][2], scoreMap[i][1]>>], 1)

\* The keys looked up: the labels and one that is none; the sizes and one
\* that is none.
ScoreKeys == {Dash, "A", "B", "C", "D", "E"}
DieKeys == {0, 6, 8, 10, 12, 4}

\* FLBR.scoreMap.get(label)
ScoreMapGet ==
  \E label \in ScoreKeys :
    /\ Len(lookups) < MaxLookups
    /\ lookups' = Append(lookups, [map |-> "scoreMap", label |-> Some(label),
                                   die |-> MapGet(scoreMap, label)])

\* FLBR.dieMap.get(die)
DieMapGet ==
  \E die \in DieKeys :
    /\ Len(lookups) < MaxLookups
    /\ lookups' = Append(lookups, [map |-> "dieMap", die |-> Some(die),
                                   label |-> MapGet(dieMap, die)])

InitConfig == lookups = << >>

(***************************************************************************)
(* The character sheet.                                                    *)
(***************************************************************************)
ACTOR_SUBTYPES == {"pc", "npc"}

\* FLBR.capacitiesMap[capacity].max
capacityMax == 10

\* The handlers of the sheet.
StatRoll == "_onStatRoll"
ActionRoll == "_onActionRoll"
ResolveDecrease == "_onResolveDecrease"

\* get template(): the limited sheet for a user who is no GM and a limited
\* actor.
sheetTemplate(gm, lim) ==
  IF ~ gm /\ lim THEN "character-limited-sheet" ELSE "character-sheet"

\* The handlers bound when only the editable state of the sheet is tested.
editableListeners(gm, lim, editable) ==
  IF ~ editable THEN {}
  ELSE {StatRoll, ActionRoll, ResolveDecrease}

\* The handlers activateListeners binds.
listeners(gm, lim, editable) ==
  IF ~ gm /\ lim THEN {}
  ELSE IF ~ editable THEN {}
  ELSE {StatRoll, ActionRoll, ResolveDecrease}

\* The sheet is rendered: the template is read and activateListeners(html)
\* binds the handlers to the new html.
ActivateListeners ==
  /\ template' = sheetTemplate(isGM, limited)
  /\ bound' = listeners(isGM, limited, isEditable)
  /\ UNCHANGED << isGM, limited, isEditable, subtype, resolve, events,
                  prevented, rollResolve >>

\* An _onResolveDecrease that does not test the resolve value.
OnResolveDecreaseAnyValue ==
  /\ ResolveDecrease \in bound
  /\ events < MaxEvents
  /\ events' = events + 1
  /\ prevented' = prevented + 1
  /\ rollResolve' = IF subtype # "pc" THEN rollResolve ELSE rollResolve + 1
  /\ UNCHANGED << isGM, limited, isEditable, subtype, resolve, template, bound >>

\* _onResolveDecrease(event): a contextmenu event on the resolve boxes of a
\* sheet whose handler is bound.
OnResolveDecrease ==
  /\ ResolveDecrease \in bound
  /\ events < MaxEvents
  /\ events' = events + 1
  /\ prevented' = prevented + 1
  /\ rollResolve' = IF subtype # "pc" THEN rollResolve
                    ELSE IF resolve > 1 THEN rollResolve
                    ELSE rollResolve + 1
  /\ UNCHANGED << isGM, limited, isEditable, subtype, resolve, template, bound >>

InitSheet ==
  /\ isGM \in BOOLEAN
  /\ limited \in BOOLEAN
  /\ isEditable \in BOOLEAN
  /\ subtype \in ACTOR_SUBTYPES
  /\ resolve \in 0..capacityMax
  /\ template = "none"
  /\ bound = {}
  /\ events = 0
  /\ prevented = 0
  /\ rollResolve = 0

\* A sheet at rest.
InitSheetIdle ==
  /\ isGM = TRUE
  /\ limited = FALSE
  /\ isEditable = TRUE
  /\ subtype = "pc"
  /\ resolve = capacityMax
  /\ template = "none"
  /\ bound = {}
  /\ events = 0
  /\ prevented = 0
  /\ rollResolve = 0

(***************************************************************************)
(* The version bump (gulpfile.js).  A version is major.minor.patch with an *)
(* optional numeric prerelease identifier.                                 *)
(***************************************************************************)
V(major, minor, patch, prerelease) ==
  [major |-> major, minor |-> minor, patch |-> patch, prerelease |-> prerelease]

ReleaseKeywords ==
  {"major", "premajor", "minor", "preminor", "patch", "prepatch", "prerelease"}

\* semver.inc(version, release) for a release keyword.
semverInc(v, release) ==
  CASE release = "major" ->
         IF v.minor # 0 \/ v.patch # 0 \/ v.prerelease = << >>
         THEN V(v.major + 1, 0, 0, << >>) ELSE V(v.major, 0, 0, << >>)
    [] release = "minor" ->
         IF v.patch # 0 \/ v.prerelease = << >>
         THEN V(v.major, v.minor + 1, 0, << >>)
         ELSE V(v.major, v.minor, 0, << >>)
    [] release = "patch" ->
         IF v.prerelease = << >>
         THEN V(v.major, v.minor, v.patch + 1, << >>)
         ELSE V(v.major, v.minor, v.patch, << >>)
    [] release = "premajor" -> V(v.major + 1, 0, 0, <<0>>)
    [] release = "preminor" -> V(v.major, v.minor + 1, 0, <<0>>)
    [] release = "prepatch" -> V(v.major, v.minor, v.patch + 1, <<0>>)
    [] release = "prerelease" ->
         IF v.prerelease = << >>
         THEN V(v.major, v.minor, v.patch + 1, <<0>>)
         ELSE V(v.major, v.minor, v.patch, <<v.prerelease[1] + 1>>)

\* The strings that semver.valid accepts, with the version each denotes: a
\* leading "v" or "=" is dropped.
ValidVersions ==
  ("1.2.3" :> V(1, 2, 3, << >>)) @@ ("v1.2.3" :> V(1, 2, 3, << >>))
    @@ ("2.0.0" :> V(2, 0, 0, << >>)) @@ ("=2.0.0" :> V(2, 0, 0, << >>))
    @@ ("2.0.0-0" :> V(2, 0, 0, <<0>>))

\* semver.valid(release): the version, null (undefined here) for a string
\* that is no version.
semverValid(release) ==
  IF release \in DOMAIN ValidVersions THEN Some(ValidVersions[release])
  ELSE Undefined

\* The values of argv.release || argv.r: "" when neither is given.
Releases == {""} \cup ReleaseKeywords \cup DOMAIN ValidVersions \cup {"latest"}

\* The versions of package.json before the first execution.
CurrentVersions ==
  { V(1, 2, 3, << >>), V(2, 0, 0, << >>), V(2, 0, 0, <<0>>), V(1, 0, 0, <<1>>) }

\* getManifest(): the manifest, undefined when static/system.json is missing.
getManifest(file) == file

\* getTargetVersion(currentVersion, release)
getTargetVersion(currentVersion, release) ==
  IF release \in ReleaseKeywords
  THEN Some(semverInc(currentVersion, release))
  ELSE semverValid(release)

\* The try block of bumpVersion, from the state st reached before it.
bumpVersionTry(st, manifest, release) ==
  LET currentVersion == st.packageJson
      targetVersion == getTargetVersion(currentVersion, release)
  IN  IF release = ""
      THEN [st EXCEPT !.cbs = Append(@, "error")]
      ELSE IF targetVersion = Undefined
      THEN [st EXCEPT !.cbs = Append(@, "error")]
      ELSE IF targetVersion[1] = currentVersion
      THEN [st EXCEPT !.cbs = Append(@, "error")]
      ELSE IF manifest = Undefined
      \* package.json is written, then manifest.file throws a TypeError
      \* that the catch block hands to the callback.
      THEN [st EXCEPT !.packageJson = targetVersion[1],
                      !.written = @ \cup {"package.json"},
                      !.cbs = Append(@, "error")]
      ELSE [st EXCEPT !.packageJson = targetVersion[1],
                      !.manifestFile = targetVersion,
                      !.written = @ \cup {"package.json", "system.json"},
                      !.cbs = Append(@, "ok")]

\* bumpVersion(cb)
bumpVersion(st, release) ==
  LET manifest == getManifest(st.manifestFile)
      st1 == IF manifest = Undefined
             THEN [st EXCEPT !.cbs = Append(@, "error")]
             ELSE st
  IN  bumpVersionTry(st1, manifest, release)

\* One execution of the bump task with a release argument.
BumpVersion ==
  \E release \in Releases :
    /\ bumps < MaxBumps
    /\ bumps' = bumps + 1
    /\ argv' = release
    /\ LET st == bumpVersion([packageJson |-> packageJson,
                              manifestFile |-> manifestFile,
                              cbs |-> << >>, written |-> {}], release)
       IN  /\ packageJson' = st.packageJson
           /\ manifestFile' = st.manifestFile
           /\ cbs' = st.cbs
           /\ written' = st.written

InitBump ==
  /\ packageJson \in CurrentVersions
  /\ manifestFile \in {Undefined, Some(packageJson)}
  /\ argv = ""
  /\ cbs = << >>
  /\ written = {}
  /\ bumps = 0

\* The release tooling at rest.
InitBumpIdle ==
  /\ packageJson = V(1, 2, 3, << >>)
  /\ manifestFile = Some(packageJson)
  /\ argv = ""
  /\ cbs = << >>
  /\ written = {}
  /\ bumps = 0

(***************************************************************************)
(* Specifications.                                                         *)
(***************************************************************************)
\* An item and an actor at rest.
InitRollIdle ==
  /\ item = [rollable |-> "true", attribute |-> "str", skill |-> NoSkill]
  /\ actor = Actor("human", 8, 6)
  /\ owned = TRUE
  /\ call = "none"
  /\ roller = << >>
  /\ rendered = FALSE
  /\ rollStat = << >>

\* The notification display.
InitOtherIdle == InitConfig /\ InitSheetIdle /\ InitBumpIdle

Init == InitDisplay /\ InitRollIdle /\ InitOtherIdle

Next ==
  \/ DisplayMessagesCall /\ UNCHANGED << rollVars, otherVars >>
  \/ DisplayMessagesReject /\ UNCHANGED << rollVars, otherVars >>
  \/ DisplayMessagesRun /\ UNCHANGED << rollVars, otherVars >>
  \/ PromptCallback /\ UNCHANGED << rollVars, otherVars >>
  \/ PromptClose /\ UNCHANGED << rollVars, otherVars >>
  \/ SettingsSetDone /\ UNCHANGED << rollVars, otherVars >>

Spec == Init /\ [][Next]_vars

\* The notification display when displayMessages is called only after the
\* earlier calls have finished and their game.settings.set calls completed.
NextSequential ==
  \/ DisplayMessagesCall /\ fetching = 0 /\ pending = << >> /\ UNCHANGED << rollVars, otherVars >>
  \/ DisplayMessagesReject /\ UNCHANGED << rollVars, otherVars >>
  \/ DisplayMessagesRun /\ UNCHANGED << rollVars, otherVars >>
  \/ PromptCallback /\ UNCHANGED << rollVars, otherVars >>
  \/ PromptClose /\ UNCHANGED << rollVars, otherVars >>
  \/ SettingsSetDone /\ UNCHANGED << rollVars, otherVars >>

SpecSequential == Init /\ [][NextSequential]_vars

\* The rolls.
InitRolls == InitDisplayIdle /\ InitRoll /\ InitOtherIdle

NextRoll ==
  \/ ItemRoll /\ UNCHANGED << displayVars, otherVars >>
  \/ OnActionRoll /\ UNCHANGED << displayVars, otherVars >>

SpecRoll == InitRolls /\ [][NextRoll]_vars

\* The score tables.
InitConfigs ==
  InitDisplayIdle /\ InitRollIdle /\ InitConfig /\ InitSheetIdle /\ InitBumpIdle

NextConfig ==
  \/ ScoreMapGet /\ UNCHANGED << displayVars, rollVars, sheetVars, bumpVars >>
  \/ DieMapGet /\ UNCHANGED << displayVars, rollVars, sheetVars, bumpVars >>

SpecConfig == InitConfigs /\ [][NextConfig]_vars

\* The character sheet.
InitSheets ==
  InitDisplayIdle /\ InitRollIdle /\ InitConfig /\ InitSheet /\ InitBumpIdle

NextSheet ==
  \/ ActivateListeners /\ UNCHANGED << displayVars, rollVars, configVars, bumpVars >>
  \/ OnResolveDecrease /\ UNCHANGED << displayVars, rollVars, configVars, bumpVars >>

SpecSheet == InitSheets /\ [][NextSheet]_vars

\* The version bump.
InitBumps ==
  InitDisplayIdle /\ InitRollIdle /\ InitConfig /\ InitSheetIdle /\ InitBump

NextBump ==
  BumpVersion /\ UNCHANGED << displayVars, rollVars, configVars, sheetVars >>

SpecBump == InitBumps /\ [][NextBump]_vars

(***************************************************************************)
(* Properties of the notification display.                                 *)
(***************************************************************************)
\* The order of versions "major.minor.patch".
VersionLess(a, b) ==
  \/ a[1] < b[1]
  \/ a[1] = b[1] /\ a[2] < b[2]
  \/ a[1] = b[1] /\ a[2] = b[2] /\ a[3] < b[3]

\* v lies in [min, max).
InBounds(min, v, max) == ~ VersionLess(v, min) /\ VersionLess(v, max)

CoreInBounds(msg) ==
  InBounds(Coalesce(msg.minCore, DefaultMin), game_version,
           Coalesce(msg.maxCore, DefaultMax))

SysInBounds(msg) ==
  InBounds(Coalesce(msg.minSys, DefaultMin), system_version,
           Coalesce(msg.maxSys, DefaultMax))

\* The title t is an element of the list.
InList(list, t) == t \in { list[k] : k \in DOMAIN list }

\* The entries of the last pass, when it ran.
Handled == IF log.status = "done" THEN DOMAIN log.entries ELSE {}

\* C1: in a pass a message is displayed exactly when its version tests pass
\* and (its display scope is "every" or its title is not in the shown-list).
C1_DisplayedIffEligible ==
  \A i \in Handled :
    (log.entries[i].did # "none")
      <=> /\ correctCoreVersion(catalog[i], game_version)
          /\ correctSysVersion(catalog[i], system_version)
          /\ (catalog[i].display = "every" \/ ~ log.entries[i].had)

C3_NoDuplicates ==
  \A i, j \in DOMAIN stored : i # j => stored[i] # stored[j]

\* C4: a message whose bounds exclude the running host version or module
\* version is never displayed: no prompt, no chat message, nothing recorded.
C4_NeverOutsideBounds ==
  /\ \A i \in DOMAIN catalog :
       ~ (CoreInBounds(catalog[i]) /\ SysInBounds(catalog[i])) => shown[i] = 0
  /\ \A i \in Handled :
       ~ (CoreInBounds(catalog[i]) /\ SysInBounds(catalog[i])) =>
         log.entries[i].did = "none" /\ ~ log.entries[i].rec
  /\ \A t \in Titles :
       (\A i \in DOMAIN catalog :
          catalog[i].title = t =>
            ~ (CoreInBounds(catalog[i]) /\ SysInBounds(catalog[i])))
         => /\ prompts[t] = 0
            /\ chats[t] = 0
            /\ t \notin recorded
            /\ ~ InList(stored, t)
            /\ \A k \in DOMAIN pending : ~ InList(pending[k], t)

\* A pass handled a message whose upper bound is exactly the running version.
C4_Witness ==
  \E i \in Handled :
    /\ \/ catalog[i].maxCore = game_version /\ SysInBounds(catalog[i])
       \/ catalog[i].maxSys = system_version /\ CoreInBounds(catalog[i])
    /\ ~ log.entries[i].had
    /\ log.entries[i].did = "none"

\* C5: a message not yet shown whose lower bound is exactly the running host
\* version, or exactly the running module version, and whose other bounds
\* are satisfied, is displayed.
C5_LowerBoundInclusive ==
  \A i \in Handled :
    ( /\ ~ log.entries[i].had
      /\ \/ catalog[i].minCore = game_version
         \/ catalog[i].minSys = system_version
      /\ CoreInBounds(catalog[i])
      /\ SysInBounds(catalog[i]) )
      => log.entries[i].did # "none"

\* C6: the stored shown-list holds only titles of messages with display scope
\* "once" that were displayed.
C6_OnlyOnceTitles ==
  \A k \in DOMAIN stored :
    \E i \in DOMAIN catalog :
      /\ catalog[i].title = stored[k]
      /\ catalog[i].display = "once"
      /\ shown[i] > 0

\* C7: a pass that is rejected (the catalog cannot be fetched or parsed) opens
\* no prompt, creates no chat message and leaves the shown-list unchanged.
C7_RejectedPassShowsNothing ==
  [][(fetching' < fetching /\ log'.status = "rejected")
       => UNCHANGED << stored, pending, prompts, chats, shown, recorded >>]_vars

\* A pass was rejected although the catalog holds a message that a pass would
\* display.
C7_Witness ==
  /\ log.status = "rejected"
  /\ \E i \in DOMAIN catalog :
       isCurrent(catalog[i], stored, game_version, system_version)

\* C14: once every pending game.settings.set has completed, the stored
\* shown-list holds the title of every message setDisplayed was called for.
C14_NoRecordedTitleLost ==
  (pending = << >> /\ fetching = 0) =>
    \A t \in recorded : InList(stored, t)

(***************************************************************************)
(* Properties of the rolls.                                                *)
(***************************************************************************)
\* The score of the actor for a key, 0 when it has none.
ScoreOf(scores, key) == IF key \in DOMAIN scores THEN scores[key] ELSE 0

\* C8: the dice of an item roll are the attribute die, then the skill die; a
\* die whose score is missing or 0 is left out; scores 10 and 8 give (10, 8),
\* and with no skill key only the attribute die is there.
C8_DiceInOrder ==
  roller # << >> =>
    LET dice == roller[1].dice
        a == ScoreOf(actor.attributes, item.attribute)
        s == ScoreOf(actor.skills, item.skill)
    IN  /\ \A k \in DOMAIN dice : dice[k] # 0
        /\ Len(dice) = (IF a # 0 THEN 1 ELSE 0) + (IF s # 0 THEN 1 ELSE 0)
        /\ a # 0 => dice[1] = a
        /\ s # 0 => dice[Len(dice)] = s
        /\ (a = 10 /\ s = 8) => dice = <<10, 8>>
        /\ item.skill = NoSkill => dice = (IF a # 0 THEN <<a>> ELSE << >>)

\* An item roll with attribute score 10 and skill score 8.
C8_Witness ==
  /\ call = "item.roll"
  /\ roller # << >>
  /\ roller[1].dice = <<10, 8>>

\* C9: an item roll whose attribute score and skill score are both missing or
\* 0 creates no roll handler and renders nothing.
C9_ZeroDiceNoRoll ==
  ( /\ call = "item.roll"
    /\ ScoreOf(actor.attributes, item.attribute) = 0
    /\ ScoreOf(actor.skills, item.skill) = 0 )
    => roller = << >> /\ ~ rendered

\* The capacity that the trauma of a pushed roll of attribute key k goes to,
\* as the claim states it.
TraumaIsCapacity(nature, k) ==
  /\ pushTrauma(nature, k) # Undefined
  /\ pushTrauma(nature, k)[1] \in CAPACITIES
  /\ nature = "human" => k \in capacitiesMap[pushTrauma(nature, k)[1]]
  /\ nature = "replicant" => pushTrauma(nature, k)[1] = "resolve"

\* C10: for the attribute key of every roll that is built, the push-trauma
\* table yields a capacity: for a human the one that lists the attribute, for
\* a replicant resolve.
C10_PushTraumaDefined ==
  /\ rollStat # << >> =>
       TraumaIsCapacity(rollStat[1].nature, rollStat[1].attributeKey)
  /\ (roller # << >> /\ roller[1].attributeKey \in attributes) =>
       TraumaIsCapacity(roller[1].nature, roller[1].attributeKey)

\* C11: the maximum push count of the roll that BladeRunnerItem.roll builds
\* is 1 for a human and 2 for a replicant, and the table has a positive count
\* for every nature of FLBR.natures.
C11_MaxPushByNature ==
  /\ roller # << >> =>
       /\ actor.nature = "human" => roller[1].maxPush = 1
       /\ actor.nature = "replicant" => roller[1].maxPush = 2
  /\ \A n \in natures : n \in DOMAIN maxPushMap /\ maxPushMap[n] > 0

\* An item roll of a replicant.
C11_Witness ==
  /\ call = "item.roll"
  /\ roller # << >>
  /\ actor.nature = "replicant"
  /\ roller[1].maxPush = 2

\* C18: a roll of an item whose rollable property is absent, null or false,
\* or that has no actor, creates no roll handler and renders nothing.
C18_NoRollUnlessRollableAndOwned ==
  ( /\ call = "item.roll"
    /\ \/ item.rollable \in {"false", "null", "undefined"}
       \/ ~ owned )
    => /\ roller = << >>
       /\ ~ rendered
       /\ rollStat = << >>

\* A roll of an owned item whose rollable property is null.
C18_Witness ==
  /\ call = "item.roll"
  /\ item.rollable = "null"
  /\ owned
  /\ roller = << >>
  /\ ~ rendered

(***************************************************************************)
(* Properties of the score tables.                                         *)
(***************************************************************************)
\* C12: FLBR.scoreMap and FLBR.dieMap are inverse bijections: every die size
\* of {0, 6, 8, 10, 12} has a label and every label a size, a label looked up
\* for a size is the one whose size it is, and no two labels have one size.
C12_InverseBijections ==
  /\ \A i \in DOMAIN lookups :
       /\ (lookups[i].map = "dieMap" /\ lookups[i].die[1] \in {0, 6, 8, 10, 12})
            => lookups[i].label # Undefined
       /\ (lookups[i].map = "scoreMap"
             /\ lookups[i].label[1] \in {Dash, "A", "B", "C", "D"})
            => lookups[i].die # Undefined
  /\ \A i, j \in DOMAIN lookups :
       /\ (lookups[i].map = "dieMap" /\ lookups[j].map = "scoreMap")
            => (lookups[i].label = lookups[j].label
                  <=> lookups[i].die = lookups[j].die)
       /\ (lookups[i].map = "scoreMap" /\ lookups[j].map = "scoreMap"
             /\ lookups[i].die # Undefined /\ lookups[i].label # lookups[j].label)
            => lookups[i].die # lookups[j].die

\* The label of the size 10 was looked up, and then the size of that label.
C12_Witness ==
  /\ Len(lookups) = 2
  /\ lookups[1] = [map |-> "dieMap", die |-> Some(10), label |-> Some("B")]
  /\ lookups[2] = [map |-> "scoreMap", label |-> Some("B"), die |-> Some(10)]

(***************************************************************************)
(* Properties of the character sheet.                                      *)
(***************************************************************************)
\* C16: the sheet binds its roll handlers only when the user is a GM or the
\* actor is not limited, and the sheet is editable; a sheet rendered with the
\* limited template has none of them bound.
C16_HandlersBoundOnlyWhenAllowed ==
  /\ bound # {} => (isGM \/ ~ limited) /\ isEditable
  /\ template = "character-limited-sheet" => bound = {}

\* An editable sheet was rendered with the limited template.
C16_Witness ==
  /\ template = "character-limited-sheet"
  /\ isEditable
  /\ bound = {}

\* C17: _onResolveDecrease calls actor.rollResolve only for a PC whose
\* resolve value is at most 1; for an NPC, or a PC whose resolve value is
\* greater than 1, it calls no roll and changes nothing of the actor or the
\* sheet.
C17_ResolveRollOnlyForPCAtMostOne ==
  [][events' > events =>
       /\ rollResolve' # rollResolve => (subtype = "pc" /\ resolve <= 1)
       /\ (subtype = "npc" \/ resolve > 1) =>
            UNCHANGED << rollResolve, subtype, resolve, isGM, limited,
                         isEditable, template, bound >>]_vars

\* The handler ran for a PC whose resolve value is 2 and called no roll.
C17_Witness ==
  /\ events > 0
  /\ subtype = "pc"
  /\ resolve = 2
  /\ rollResolve = 0

(***************************************************************************)
(* Properties of the version bump.                                         *)
(***************************************************************************)
\* C13: in each error case of bumpVersion (manifest not found, release
\* argument missing, no release keyword and no valid version, target version
\* equal to the current version) the callback receives an Error and neither
\* package.json nor the manifest file is written.
C13_ErrorsHaltWithoutWriting ==
  [][bumps' > bumps =>
       LET target == getTargetVersion(packageJson, argv')
       IN  ( \/ manifestFile = Undefined
             \/ argv' = ""
             \/ target = Undefined
             \/ target = Some(packageJson) )
             => /\ \E k \in DOMAIN cbs' : cbs'[k] = "error"
                /\ written' = {}
                /\ packageJson' = packageJson
                /\ manifestFile' = manifestFile]_vars

\* C15: every execution of bumpVersion calls its callback exactly once.
C15_CallbackExactlyOnce ==
  bumps > 0 => Len(cbs) = 1

=============================================================================
